---- MODULE Spec2Model ----
(***************************************************************************)
(* Model of src/src/bot.py: the leaderboard bot's snapshot files, its      *)
(* three scheduled callbacks, the /leaderboard command and the pure        *)
(* aggregation routine calculate_daily_performance.                        *)
(*                                                                         *)
(* A leaderboard file is the JSON object {username: [money, link, stocks]} *)
(* and is modelled as the sequence of its entries in key order (the order  *)
(* Python's dict iterates in).  A stock is the triple                      *)
(* <<symbol, quantity, label>>.  Balances are non-negative numbers.        *)
(* change_percent is the exact rational change_amount * 100 / prev_money,  *)
(* kept as a fraction in lowest terms with a positive denominator.         *)
(***************************************************************************)
EXTENDS Integers, Sequences, FiniteSets, TLC

VARIABLES
    latest,         \* ./backend/leaderboards/leaderboard-latest.json
    snapshot,       \* ./backend/leaderboards/snapshots/leaderboard-snapshot.json
    morning,        \* ./backend/leaderboards/snapshots/morning-snapshot.json
    morningFresh,   \* history: morning-snapshot.json was written earlier today
    weekday,        \* datetime.weekday() of the current day: 0 = Monday .. 6 = Sunday
    tIdx,           \* index into TimePoints: the current wall-clock time
    fired,          \* once-daily triggers already run at the current time point
    alive,          \* per tasks.loop: is the loop running
    ran,            \* the one-step callback or function that ran last
    out,            \* chat messages sent by that run
    log,            \* lines printed by that run
    slPc,           \* send_leaderboard: the await it is suspended at, or "idle"
    slSt,           \* send_leaderboard: its stocks_channel ("ok" or "none")
    slMem,          \* compare_stock_changes: current_data as read at line 78 or 69
    slPending,      \* send_leaderboard: the messages still to be sent
    slOut,          \* chat messages sent by the current or last send_leaderboard run
    slLog,          \* lines printed by that run
    compared,       \* history: how compare_stock_changes went in that run
    stats,          \* the last result of calculate_daily_performance
    previous_data,  \* argument of calculate_daily_performance
    current_data,   \* argument of calculate_daily_performance
    count           \* argument of the /leaderboard command

slVars == <<slPc, slSt, slMem, slPending, slOut, slLog, compared>>

vars == <<latest, snapshot, morning, morningFresh, weekday, tIdx, fired, alive, ran,
          out, log, slVars, stats, previous_data, current_data, count>>

-----------------------------------------------------------------------------
(* Bounds *)

MaxBal == 2         \* balances are 0, 100, ..., 100 * MaxBal
MaxBoard == 11      \* largest number of users in a /leaderboard snapshot
MaxCount == 12      \* /leaderboard count ranges over -1 .. MaxCount

(* Program constants *)

LeaderboardLimit == 10    \* count = max(1, min(count, 10))
MostActiveLimit == 3      \* sorted(...)[:3]
TopLimit == 3             \* stats["performance"][:3] and [-3:]
Weekdays == 5             \* now.weekday() < 5

\* A time of day is <<hour, minute, second, microsecond>>, US/Eastern.
StartTime == <<9, 15, 0, 0>>        \* now.replace(hour=9, minute=15, ...)
EndTime == <<16, 15, 0, 0>>         \* now.replace(hour=16, minute=15, ...)
StartOfDayTime == <<9, 30, 0, 0>>   \* tasks.loop(time=datetime.time(hour=9, minute=30))
SummaryTime == <<16, 0, 0, 0>>      \* tasks.loop(time=datetime.time(hour=16, minute=0))

-----------------------------------------------------------------------------
(* Data *)

Max(a, b) == IF a >= b THEN a ELSE b
Min(a, b) == IF a <= b THEN a ELSE b
Abs(a) == IF a < 0 THEN -a ELSE a

RECURSIVE GCD(_, _)
GCD(a, b) == IF b = 0 THEN a ELSE GCD(b, a % b)

Balances == { 100 * b : b \in 0..MaxBal }

Entry(username, money, stocks) ==
    [username |-> username, money |-> money, link |-> "", stocks |-> stocks]

File(data) == [state |-> "json", data |-> data]
MissingFile == [state |-> "missing", data |-> <<>>]
MalformedFile == [state |-> "malformed", data |-> <<>>]

Readable(file) == file.state = "json"
Exists(file) == file.state # "missing"

Keys(data) == { data[i].username : i \in DOMAIN data }
HasKey(data, username) == \E i \in DOMAIN data : data[i].username = username
Get(data, username) == data[CHOOSE i \in DOMAIN data : data[i].username = username]

-----------------------------------------------------------------------------
(* calculate_daily_performance *)

Symbols(stocks) == { stocks[i][1] : i \in DOMAIN stocks }

TradeCount_QuantityKeyed(current_stocks, previous_stocks) ==
    LET c == { <<current_stocks[i][1], current_stocks[i][2]>> : i \in DOMAIN current_stocks }
        p == { <<previous_stocks[i][1], previous_stocks[i][2]>> : i \in DOMAIN previous_stocks }
    IN  Cardinality((c \ p) \cup (p \ c))

TradeCount(current_stocks, previous_stocks) ==
    LET c == Symbols(current_stocks)
        p == Symbols(previous_stocks)
    IN  Cardinality((c \ p) \cup (p \ c))

ChangeAmount_Swapped(curr_money, prev_money) == prev_money - curr_money

ChangeAmount(curr_money, prev_money) == curr_money - prev_money

Frac(n, d) ==
    LET g == GCD(Abs(n), Abs(d))
        s == IF d < 0 THEN -1 ELSE 1
    IN  [num |-> s * (n \div g), den |-> s * (d \div g)]

ZeroPercent == [num |-> 0, den |-> 1]

PctLT(a, b) == a.num * b.den < b.num * a.den
PctGT(a, b) == PctLT(b, a)

PercentChange_ZeroOnZero(change_amount, prev_money) ==
    IF prev_money = 0
    THEN [raised |-> FALSE, value |-> ZeroPercent]
    ELSE [raised |-> FALSE, value |-> Frac(change_amount * 100, prev_money)]

PercentChange(change_amount, prev_money) ==
    IF prev_money = 0
    THEN [raised |-> TRUE, value |-> ZeroPercent]
    ELSE [raised |-> FALSE, value |-> Frac(change_amount * 100, prev_money)]

Sentinel == [username |-> "", amount |-> 0, percent |-> ZeroPercent]

TrackGain_LastWins(biggest_gain, username, change_amount, percent_change) ==
    IF ~PctLT(percent_change, biggest_gain.percent)
    THEN [username |-> username, amount |-> change_amount, percent |-> percent_change]
    ELSE biggest_gain

TrackGain(biggest_gain, username, change_amount, percent_change) ==
    IF PctGT(percent_change, biggest_gain.percent)
    THEN [username |-> username, amount |-> change_amount, percent |-> percent_change]
    ELSE biggest_gain

TrackLoss(biggest_loss, username, change_amount, percent_change) ==
    IF PctLT(percent_change, biggest_loss.percent)
    THEN [username |-> username, amount |-> change_amount, percent |-> percent_change]
    ELSE biggest_loss

AppendPerformance_OnlyTraders(performance, rec) ==
    IF rec.trades = 0 THEN performance ELSE Append(performance, rec)

AppendPerformance(performance, rec) == Append(performance, rec)

\* key(x) < key(y) for the sort key named by key.
KeyLess(key, a, b) ==
    CASE key = "change_percent" -> PctLT(a.change_percent, b.change_percent)
      [] key = "trades" -> a.trades < b.trades
      [] key = "Money In Account" -> a.money < b.money

\* Stable insertion of rec into a sequence sorted descending by key:
\* rec goes after every element whose key is >= its own.
RECURSIVE InsertDesc(_, _, _)
InsertDesc(sorted, rec, key) ==
    IF sorted = <<>> THEN <<rec>>
    ELSE IF KeyLess(key, Head(sorted), rec)
         THEN <<rec>> \o sorted
         ELSE <<Head(sorted)>> \o InsertDesc(Tail(sorted), rec, key)

\* sorted(s, key=..., reverse=True): descending, equal keys keep their order.
RECURSIVE SortDesc(_, _)
SortDesc(s, key) ==
    IF s = <<>> THEN <<>>
    ELSE InsertDesc(SortDesc(SubSeq(s, 1, Len(s) - 1), key), s[Len(s)], key)

FirstN(s, n) == SubSeq(s, 1, Min(n, Len(s)))
LastN(s, n) == SubSeq(s, Max(1, Len(s) - n + 1), Len(s))

EmptyAcc ==
    [raised |-> FALSE, performance |-> <<>>, total_trades |-> 0,
     biggest_gain |-> Sentinel, biggest_loss |-> Sentinel]

Raised ==
    [raised |-> TRUE, performance |-> <<>>, total_trades |-> 0,
     biggest_gain |-> Sentinel, biggest_loss |-> Sentinel, most_active |-> <<>>]

\* One iteration of the for loop over current_data.
PerfStep(acc, previous_data_, current_data_, i) ==
    LET username == current_data_[i].username IN
    IF ~HasKey(previous_data_, username) THEN acc
    ELSE
      LET prev_money == Get(previous_data_, username).money
          curr_money == current_data_[i].money
          trade_count == TradeCount(current_data_[i].stocks,
                                    Get(previous_data_, username).stocks)
          change_amount == ChangeAmount(curr_money, prev_money)
          pc == PercentChange(change_amount, prev_money)
      IN  IF pc.raised THEN [acc EXCEPT !.raised = TRUE]
          ELSE [raised |-> FALSE,
                performance |->
                    AppendPerformance(acc.performance,
                        [username |-> username, change_amount |-> change_amount,
                         change_percent |-> pc.value, trades |-> trade_count]),
                total_trades |-> acc.total_trades + trade_count,
                biggest_gain |->
                    TrackGain(acc.biggest_gain, username, change_amount, pc.value),
                biggest_loss |->
                    TrackLoss(acc.biggest_loss, username, change_amount, pc.value)]

RECURSIVE PerfLoop(_, _, _, _)
PerfLoop(acc, previous_data_, current_data_, i) ==
    IF acc.raised \/ i > Len(current_data_) THEN acc
    ELSE PerfLoop(PerfStep(acc, previous_data_, current_data_, i),
                  previous_data_, current_data_, i + 1)

calculate_daily_performance(previous_data_, current_data_) ==
    LET acc == PerfLoop(EmptyAcc, previous_data_, current_data_, 1) IN
    IF acc.raised THEN Raised
    ELSE [raised |-> FALSE,
          performance |-> SortDesc(acc.performance, "change_percent"),
          total_trades |-> acc.total_trades,
          biggest_gain |-> acc.biggest_gain,
          biggest_loss |-> acc.biggest_loss,
          most_active |-> FirstN(SortDesc(acc.performance, "trades"), MostActiveLimit)]

NoStats ==
    [raised |-> FALSE, performance |-> <<>>, total_trades |-> 0,
     biggest_gain |-> Sentinel, biggest_loss |-> Sentinel, most_active |-> <<>>]

-----------------------------------------------------------------------------
(* send_daily_summary and the start-of-day snapshot *)

\* The embed built from stats; a field guarded by `if ...["username"]` is
\* a sequence of zero or one record.
SummaryEmbed(stats_) ==
    [kind |-> "summary",
     total_trades |-> stats_.total_trades,
     top |-> FirstN(stats_.performance, TopLimit),
     bottom |-> LastN(stats_.performance, TopLimit),
     gain |-> IF stats_.biggest_gain.username # "" THEN <<stats_.biggest_gain>> ELSE <<>>,
     loss |-> IF stats_.biggest_loss.username # "" THEN <<stats_.biggest_loss>> ELSE <<>>,
     active |-> stats_.most_active]

Quiet == [morning |-> MissingFile, stats |-> NoStats, sent |-> <<>>, log |-> <<>>, raised |-> FALSE]

send_daily_summary_CreatesBaseline(weekday_, morning_, latest_, channel, sendFails) ==
    LET keep == [Quiet EXCEPT !.morning = morning_]
        error == [keep EXCEPT !.log = <<"Error in send_daily_summary">>]
    IN
    IF ~(weekday_ < Weekdays) THEN keep
    ELSE IF ~Exists(morning_)
    THEN IF Readable(latest_) THEN [keep EXCEPT !.morning = latest_] ELSE error
    ELSE IF ~Readable(morning_) \/ ~Readable(latest_) THEN error
    ELSE
      LET st == calculate_daily_performance(morning_.data, latest_.data) IN
      IF st.raised THEN [error EXCEPT !.stats = st]
      ELSE IF st.performance = <<>> THEN [keep EXCEPT !.stats = st]
      ELSE IF channel = "unset" THEN [error EXCEPT !.stats = st]
      ELSE IF channel = "none" THEN [keep EXCEPT !.stats = st]
      ELSE IF sendFails THEN [error EXCEPT !.stats = st]
      ELSE [keep EXCEPT !.stats = st, !.sent = <<SummaryEmbed(st)>>]

\* channel: "ok", "unset" (environment variable missing) or "none"
\* (bot.get_channel returns None); sendFails: channel.send raises.  The
\* send is the callback's last statement, so the run is one step.
send_daily_summary(weekday_, morning_, latest_, channel, sendFails) ==
    LET keep == [Quiet EXCEPT !.morning = morning_]
        error == [keep EXCEPT !.log = <<"Error in send_daily_summary">>]
    IN
    IF ~(weekday_ < Weekdays) THEN keep
    ELSE IF ~Exists(morning_)
    THEN [keep EXCEPT !.log = <<"No morning snapshot found">>]
    ELSE IF ~Readable(morning_) \/ ~Readable(latest_) THEN error
    ELSE
      LET st == calculate_daily_performance(morning_.data, latest_.data) IN
      IF st.raised THEN [error EXCEPT !.stats = st]
      ELSE IF st.performance = <<>> THEN [keep EXCEPT !.stats = st]
      ELSE IF channel = "unset" THEN [error EXCEPT !.stats = st]
      ELSE IF channel = "none" THEN [keep EXCEPT !.stats = st]
      ELSE IF sendFails THEN [error EXCEPT !.stats = st]
      ELSE [keep EXCEPT !.stats = st, !.sent = <<SummaryEmbed(st)>>]

create_morning_snapshot_Uncaught(latest_, morning_) ==
    IF Readable(latest_)
    THEN [morning |-> latest_, written |-> TRUE, log |-> <<>>, raised |-> FALSE]
    ELSE [morning |-> morning_, written |-> FALSE, log |-> <<>>, raised |-> TRUE]

create_morning_snapshot(latest_, morning_) ==
    IF Readable(latest_)
    THEN [morning |-> latest_, written |-> TRUE, log |-> <<>>, raised |-> FALSE]
    ELSE [morning |-> morning_, written |-> FALSE,
          log |-> <<"Error creating morning snapshot">>, raised |-> FALSE]

start_of_day(weekday_, latest_, morning_) ==
    IF weekday_ < Weekdays
    THEN create_morning_snapshot(latest_, morning_)
    ELSE [morning |-> morning_, written |-> FALSE, log |-> <<>>, raised |-> FALSE]

-----------------------------------------------------------------------------
(* compare_stock_changes *)

ChangeOf(previous, entry) ==
    LET current_stocks == Symbols(entry.stocks)
        previous_stocks ==
            IF HasKey(previous, entry.username)
            THEN Symbols(Get(previous, entry.username).stocks)
            ELSE current_stocks
    IN  [kind |-> "changes", username |-> entry.username,
         bought |-> current_stocks \ previous_stocks,
         sold |-> previous_stocks \ current_stocks]

HasChange(m) == m.bought # {} \/ m.sold # {}

\* The embeds the for loop sends, in current_data order.
ChangeMessages(previous, current) ==
    SelectSeq([i \in 1..Len(current) |-> ChangeOf(previous, current[i])], HasChange)

ErrorMessage(text) == [kind |-> "error", text |-> text]

\* compare_stock_changes from its call up to its first await or its return.
\* pc = "change": suspended in the first channel.send of the for loop, with
\* pending the embeds of the loop; pc = "error": suspended in the send of
\* the except clause; pc = "idle": returned.  mem is current_data.
compare_stock_changes_WriteFirst(snapshot_, latest_) ==
    LET failed == [pc |-> "error", snapshot |-> snapshot_, mem |-> MissingFile,
                   pending |-> <<>>, compared |-> "failed"]
    IN
    IF ~Exists(snapshot_)
    THEN IF Readable(latest_)
         THEN [pc |-> "idle", snapshot |-> latest_, mem |-> latest_,
               pending |-> <<>>, compared |-> "ok"]
         ELSE failed
    ELSE IF ~Readable(snapshot_) \/ ~Readable(latest_) THEN failed
    ELSE
      LET msgs == ChangeMessages(snapshot_.data, latest_.data) IN
      IF msgs = <<>>
      THEN [pc |-> "idle", snapshot |-> latest_, mem |-> latest_,
            pending |-> <<>>, compared |-> "ok"]
      ELSE [pc |-> "change", snapshot |-> latest_, mem |-> latest_,
            pending |-> msgs, compared |-> "running"]

compare_stock_changes(snapshot_, latest_) ==
    LET failed == [pc |-> "error", snapshot |-> snapshot_, mem |-> MissingFile,
                   pending |-> <<>>, compared |-> "failed"]
    IN
    IF ~Exists(snapshot_)
    THEN IF Readable(latest_)
         THEN [pc |-> "idle", snapshot |-> latest_, mem |-> latest_,
               pending |-> <<>>, compared |-> "ok"]
         ELSE failed
    ELSE IF ~Readable(snapshot_) \/ ~Readable(latest_) THEN failed
    ELSE
      LET msgs == ChangeMessages(snapshot_.data, latest_.data) IN
      IF msgs = <<>>
      THEN [pc |-> "idle", snapshot |-> latest_, mem |-> latest_,
            pending |-> <<>>, compared |-> "ok"]
      ELSE [pc |-> "change", snapshot |-> snapshot_, mem |-> latest_,
            pending |-> msgs, compared |-> "running"]

-----------------------------------------------------------------------------
(* get_user_info, /leaderboard and send_leaderboard *)

\* df is the data frame: the file's entries as rows.  holdings stands for
\* the formatted string, one stock per line.
get_user_info(df, username) ==
    IF ~HasKey(df, username)
    THEN [found |-> FALSE, user_name |-> "", user_money |-> 0, holdings |-> <<>>]
    ELSE LET user_data == Get(df, username)
         IN  [found |-> TRUE, user_name |-> user_data.username,
              user_money |-> user_data.money, holdings |-> user_data.stocks]

Clamp_NoLowerBound(count_) == Min(count_, LeaderboardLimit)

Clamp(count_) == Max(1, Min(count_, LeaderboardLimit))

\* The reply of the /leaderboard command.  An empty file has no columns to
\* rename, so the column assignment raises and the error text is sent.
leaderboard(latest_, count_) ==
    IF ~Readable(latest_) \/ latest_.data = <<>>
    THEN [kind |-> "error", rows |-> <<>>]
    ELSE
      LET df == SortDesc(latest_.data, "Money In Account")
          n == Min(Clamp(count_), Len(df))
      IN  [kind |-> "leaderboard",
           rows |-> [i \in 1..n |-> get_user_info(df, df[i].username)]]

TopEmbed(info) ==
    [kind |-> "top", user_name |-> info.user_name, user_money |-> info.user_money,
     holdings |-> info.holdings]

\* a <= b for two times of the same day.
TimeLE(a, b) ==
    \/ a = b
    \/ \E i \in 1..4 : a[i] < b[i] /\ \A j \in 1..(i - 1) : a[j] = b[j]

InWindow(now) == TimeLE(StartTime, now) /\ TimeLE(now, EndTime)

\* send_leaderboard from its start up to its first await or its return.
\* pc = "top": suspended in leaderboard_channel.send, with pending the
\* embed; st: whether compare_stock_changes follows.  Everything from
\* line 254 on is inside the try, so nothing escapes.
send_leaderboard(weekday_, now, latest_, snapshot_, lbChannel, stChannel) ==
    LET keep == [pc |-> "idle", st |-> "none", snapshot |-> snapshot_,
                 mem |-> MissingFile, pending |-> <<>>, compared |-> "no",
                 log |-> <<>>, raised |-> FALSE]
        error == [keep EXCEPT !.log = <<"Error in send_leaderboard">>]
    IN
    IF ~(weekday_ < Weekdays /\ InWindow(now)) THEN keep
    ELSE IF ~Readable(latest_) \/ latest_.data = <<>> THEN error
    ELSE IF lbChannel = "unset" \/ stChannel = "unset" THEN error
    ELSE
      LET df == SortDesc(latest_.data, "Money In Account")
          top == TopEmbed(get_user_info(df, df[1].username))
      IN  IF lbChannel = "ok"
          THEN [keep EXCEPT !.pc = "top", !.st = stChannel, !.pending = <<top>>]
          ELSE IF stChannel # "ok" THEN keep
          ELSE
            LET c == compare_stock_changes(snapshot_, latest_)
            IN  [keep EXCEPT !.pc = c.pc, !.snapshot = c.snapshot, !.mem = c.mem,
                             !.pending = c.pending, !.compared = c.compared]

-----------------------------------------------------------------------------
(* Inputs *)

AAPL10 == <<"AAPL", 10, "x">>
AAPL12 == <<"AAPL", 12, "y">>
TSLA5 == <<"TSLA", 5, "y">>

HoldingsPool == { <<>>, <<AAPL10>>, <<AAPL12>>, <<TSLA5>>, <<AAPL10, TSLA5>> }

Entries(username) == { Entry(username, m, h) : m \in Balances, h \in HoldingsPool }

\* Baselines are only probed by key, so one key order per key set suffices.
\* carol, when present, comes last and has one fixed record per snapshot.
TwoUserBaselines ==
    {<<>>} \cup { <<e>> : e \in Entries("alice") \cup Entries("bob") }
           \cup { <<a, b>> : a \in Entries("alice"), b \in Entries("bob") }

BaselineSnapshots ==
    TwoUserBaselines
        \cup { Append(d, Entry("carol", 200, <<>>)) : d \in TwoUserBaselines }

TwoUserCurrents ==
    TwoUserBaselines \cup { <<b, a>> : a \in Entries("alice"), b \in Entries("bob") }

CurrentSnapshots ==
    TwoUserCurrents
        \cup { Append(d, Entry("carol", 100, <<AAPL10>>)) : d \in TwoUserCurrents }

\* The files the refresher and earlier runs leave behind in the scheduler model.
SysSnapshots ==
    { <<Entry("alice", 100, <<AAPL10>>), Entry("bob", 200, <<>>)>>,
      <<Entry("alice", 200, <<AAPL12, TSLA5>>), Entry("bob", 100, <<>>)>>,
      <<Entry("bob", 0, <<TSLA5>>), Entry("alice", 100, <<AAPL12>>)>>,
      <<Entry("carol", 100, <<>>)>> }

SysFiles == { File(d) : d \in SysSnapshots } \cup {MissingFile, MalformedFile}

BoardNames ==
    <<"u01", "u02", "u03", "u04", "u05", "u06", "u07", "u08", "u09", "u10",
      "u11", "u12", "u13", "u14">>

BoardSnapshots ==
    UNION { { [i \in 1..n |-> Entry(BoardNames[i], money[i], <<>>)] :
                money \in [1..n -> {100, 200}] } : n \in 0..MaxBoard }

BoardFiles == { File(d) : d \in BoardSnapshots } \cup {MissingFile, MalformedFile}

Counts == -1..MaxCount

ChannelStates == {"ok", "unset", "none"}

TimePoints ==
    << <<9, 14, 59, 999999>>, StartTime, StartOfDayTime, SummaryTime, EndTime,
       <<16, 15, 0, 1>> >>

Loops == {"send_leaderboard", "start_of_day", "send_daily_summary"}

-----------------------------------------------------------------------------
(* The scheduler: the three tasks.loop callbacks, the refresher, the clock *)

Init ==
    /\ latest \in SysFiles
    /\ snapshot \in {MissingFile, MalformedFile}
    /\ morning \in {MissingFile, MalformedFile}
    /\ morningFresh = FALSE
    /\ weekday = 0
    /\ tIdx = 1
    /\ fired = {}
    \* on_ready starts all three loops, or none when bot.tree.sync() raises
    /\ \E started \in BOOLEAN : alive = [t \in Loops |-> started]
    /\ ran = "none"
    /\ out = <<>>
    /\ log = <<>>
    /\ slPc = "idle" /\ slSt = "none" /\ slMem = MissingFile
    /\ slPending = <<>> /\ slOut = <<>> /\ slLog = <<>>
    /\ compared = "no"
    /\ stats = NoStats
    /\ previous_data = <<>>
    /\ current_data = <<>>
    /\ count = 1

\* The external refresher replaces leaderboard-latest.json; it can do so
\* while send_leaderboard is suspended in a send.
Refresh ==
    /\ \E f \in SysFiles : f # latest /\ latest' = f
    /\ ran' = "none"
    /\ out' = <<>> /\ log' = <<>> /\ stats' = NoStats
    /\ UNCHANGED <<snapshot, morning, morningFresh, weekday, tIdx, fired, alive,
                   slVars, previous_data, current_data, count>>

\* Time passes to the next time point; a trigger that did not run is missed.
\* What a finished send_leaderboard run left to observe is dropped.
Tick ==
    /\ tIdx' = IF tIdx = Len(TimePoints) THEN 1 ELSE tIdx + 1
    /\ weekday' = IF tIdx = Len(TimePoints) THEN (weekday + 1) % 7 ELSE weekday
    /\ morningFresh' = IF tIdx = Len(TimePoints) THEN FALSE ELSE morningFresh
    /\ fired' = {}
    /\ ran' = "none"
    /\ out' = <<>> /\ log' = <<>> /\ stats' = NoStats
    /\ IF slPc = "idle"
       THEN /\ slMem' = MissingFile /\ slOut' = <<>> /\ slLog' = <<>>
            /\ compared' = "no"
            /\ UNCHANGED <<slPc, slSt, slPending>>
       ELSE UNCHANGED slVars
    /\ UNCHANGED <<latest, snapshot, morning, alive, previous_data, current_data, count>>

\* One iteration of the send_leaderboard loop starts (the loop runs one
\* iteration at a time) and runs to its first await or to its end.
SendLeaderboard ==
    /\ alive["send_leaderboard"]
    /\ slPc = "idle"
    /\ \E lbChannel \in ChannelStates, stChannel \in ChannelStates :
         LET r == send_leaderboard(weekday, TimePoints[tIdx], latest, snapshot,
                                   lbChannel, stChannel)
         IN  /\ slPc' = r.pc
             /\ slSt' = r.st
             /\ snapshot' = r.snapshot
             /\ slMem' = r.mem
             /\ slPending' = r.pending
             /\ compared' = r.compared
             /\ slLog' = r.log
             /\ alive' = [alive EXCEPT !["send_leaderboard"] = ~r.raised]
    /\ slOut' = <<>>
    /\ UNCHANGED <<latest, morning, morningFresh, weekday, tIdx, fired, ran, out, log,
                   stats, previous_data, current_data, count>>

\* leaderboard_channel.send (line 290) completes or raises; on success
\* compare_stock_changes is called and reads the files as they are now.
TopSent ==
    /\ slPc = "top"
    /\ \E ok \in BOOLEAN :
         IF ~ok
         THEN /\ slLog' = <<"Error in send_leaderboard">>
              /\ slPc' = "idle" /\ slSt' = "none" /\ slPending' = <<>>
              /\ UNCHANGED <<snapshot, slMem, slOut, compared>>
         ELSE /\ slOut' = Append(slOut, Head(slPending))
              /\ slSt' = "none"
              /\ IF slSt # "ok"
                 THEN /\ slPc' = "idle" /\ slPending' = <<>>
                      /\ UNCHANGED <<snapshot, slMem, compared>>
                 ELSE LET c == compare_stock_changes(snapshot, latest)
                      IN  /\ slPc' = c.pc
                          /\ snapshot' = c.snapshot
                          /\ slMem' = c.mem
                          /\ slPending' = c.pending
                          /\ compared' = c.compared
              /\ UNCHANGED slLog
    /\ UNCHANGED <<latest, morning, morningFresh, weekday, tIdx, fired, alive, ran, out,
                   log, stats, previous_data, current_data, count>>

\* A channel.send of the for loop (line 106) completes or raises.  After
\* the last one the snapshot is written from current_data (lines 109-110);
\* a raise enters the except clause, which sends the error text.
ChangeSent ==
    /\ slPc = "change"
    /\ \E ok \in BOOLEAN :
         IF ~ok
         THEN /\ slPc' = "error" /\ slPending' = <<>> /\ compared' = "failed"
              /\ UNCHANGED <<snapshot, slOut>>
         ELSE /\ slOut' = Append(slOut, Head(slPending))
              /\ slPending' = Tail(slPending)
              /\ IF Tail(slPending) = <<>>
                 THEN /\ snapshot' = slMem /\ slPc' = "idle" /\ compared' = "ok"
                 ELSE UNCHANGED <<snapshot, slPc, compared>>
    /\ UNCHANGED <<latest, morning, morningFresh, weekday, tIdx, fired, alive, ran, out,
                   log, slSt, slMem, slLog, stats, previous_data, current_data, count>>

\* The channel.send of the except clause (line 113) completes or raises;
\* a raise is caught by send_leaderboard's except clause, which prints.
ErrorSent ==
    /\ slPc = "error"
    /\ \E ok \in BOOLEAN :
         IF ok
         THEN /\ slOut' = Append(slOut, ErrorMessage("Error comparing stock changes"))
              /\ UNCHANGED slLog
         ELSE /\ slLog' = <<"Error in send_leaderboard">>
              /\ UNCHANGED slOut
    /\ slPc' = "idle"
    /\ UNCHANGED <<latest, snapshot, morning, morningFresh, weekday, tIdx, fired, alive,
                   ran, out, log, slSt, slMem, slPending, compared, stats,
                   previous_data, current_data, count>>

StartOfDay ==
    /\ alive["start_of_day"]
    /\ TimePoints[tIdx] = StartOfDayTime
    /\ "start_of_day" \notin fired
    /\ LET r == start_of_day(weekday, latest, morning)
       IN  /\ morning' = r.morning
           /\ morningFresh' = (morningFresh \/ r.written)
           /\ log' = r.log
           /\ alive' = [alive EXCEPT !["start_of_day"] = ~r.raised]
    /\ fired' = fired \cup {"start_of_day"}
    /\ ran' = "start_of_day"
    /\ out' = <<>> /\ stats' = NoStats
    /\ UNCHANGED <<latest, snapshot, weekday, tIdx, slVars,
                   previous_data, current_data, count>>

SendDailySummary ==
    /\ alive["send_daily_summary"]
    /\ TimePoints[tIdx] = SummaryTime
    /\ "send_daily_summary" \notin fired
    /\ \E channel \in ChannelStates, sendFails \in BOOLEAN :
         LET r == send_daily_summary(weekday, morning, latest, channel, sendFails)
         IN  /\ morning' = r.morning
             /\ stats' = r.stats
             /\ out' = r.sent
             /\ log' = r.log
             /\ alive' = [alive EXCEPT !["send_daily_summary"] = ~r.raised]
    /\ fired' = fired \cup {"send_daily_summary"}
    /\ ran' = "send_daily_summary"
    /\ UNCHANGED <<latest, snapshot, morningFresh, weekday, tIdx, slVars,
                   previous_data, current_data, count>>

Next ==
    \/ Refresh \/ Tick
    \/ SendLeaderboard \/ TopSent \/ ChangeSent \/ ErrorSent
    \/ StartOfDay \/ SendDailySummary

Spec == Init /\ [][Next]_vars

-----------------------------------------------------------------------------
(* calculate_daily_performance applied to bounded inputs *)

InitPerf ==
    /\ previous_data \in BaselineSnapshots
    /\ current_data \in CurrentSnapshots
    /\ latest = MissingFile /\ snapshot = MissingFile /\ morning = MissingFile
    /\ morningFresh = FALSE /\ weekday = 0 /\ tIdx = 1 /\ fired = {}
    /\ alive = [t \in Loops |-> TRUE]
    /\ ran = "none" /\ out = <<>> /\ log = <<>>
    /\ slPc = "idle" /\ slSt = "none" /\ slMem = MissingFile
    /\ slPending = <<>> /\ slOut = <<>> /\ slLog = <<>> /\ compared = "no"
    /\ stats = NoStats
    /\ count = 1

Calculate ==
    /\ ran = "none"
    /\ stats' = calculate_daily_performance(previous_data, current_data)
    /\ ran' = "calculate_daily_performance"
    /\ UNCHANGED <<latest, snapshot, morning, morningFresh, weekday, tIdx, fired,
                   alive, out, log, slVars, previous_data, current_data, count>>

\* The embed send_daily_summary builds when stats["performance"] is not empty.
Summarise ==
    /\ ran = "calculate_daily_performance"
    /\ ~stats.raised
    /\ stats.performance # <<>>
    /\ out' = <<SummaryEmbed(stats)>>
    /\ ran' = "summary"
    /\ UNCHANGED <<latest, snapshot, morning, morningFresh, weekday, tIdx, fired,
                   alive, log, slVars, stats, previous_data, current_data, count>>

NextPerf == Calculate \/ Summarise

SpecPerf == InitPerf /\ [][NextPerf]_vars

-----------------------------------------------------------------------------
(* The /leaderboard command applied to bounded inputs *)

InitBoard ==
    /\ latest \in BoardFiles
    /\ snapshot = MissingFile /\ morning = MissingFile
    /\ morningFresh = FALSE /\ weekday = 0 /\ tIdx = 1 /\ fired = {}
    /\ alive = [t \in Loops |-> TRUE]
    /\ ran = "none" /\ out = <<>> /\ log = <<>>
    /\ slPc = "idle" /\ slSt = "none" /\ slMem = MissingFile
    /\ slPending = <<>> /\ slOut = <<>> /\ slLog = <<>> /\ compared = "no"
    /\ stats = NoStats
    /\ previous_data = <<>> /\ current_data = <<>>
    /\ count = 1

Leaderboard ==
    /\ ran = "none"
    /\ \E c \in Counts : count' = c /\ out' = <<leaderboard(latest, c)>>
    /\ ran' = "leaderboard"
    /\ UNCHANGED <<latest, snapshot, morning, morningFresh, weekday, tIdx, fired,
                   alive, log, slVars, stats, previous_data, current_data>>

NextBoard == Leaderboard

SpecBoard == InitBoard /\ [][NextBoard]_vars

-----------------------------------------------------------------------------
(* Properties of calculate_daily_performance (checked under SpecPerf) *)

Calculated == ran \in {"calculate_daily_performance", "summary"}
Returned == Calculated /\ ~stats.raised

SharedUsers == Keys(previous_data) \cap Keys(current_data)

Occurrences(performance, username) ==
    Cardinality({ i \in DOMAIN performance : performance[i].username = username })

\* C1: the returned performance list has exactly one record for each
\* username present in both snapshots and none for a username present in
\* only one of them.
C1_OneRecordPerSharedUser ==
    Returned =>
        /\ \A i \in DOMAIN stats.performance :
               stats.performance[i].username \in SharedUsers
        /\ \A u \in Keys(previous_data) \cup Keys(current_data) :
               Occurrences(stats.performance, u) = IF u \in SharedUsers THEN 1 ELSE 0

C1_Witness ==
    /\ ran = "calculate_daily_performance" /\ ~stats.raised
    /\ "alice" \in Keys(previous_data) \ Keys(current_data)
    /\ "carol" \in Keys(current_data) \ Keys(previous_data)
    /\ SharedUsers = {"bob"}
    /\ Len(stats.performance) = 1

\* C2: with a non-zero baseline for every shared user, each record's
\* change_amount is the user's current balance minus the baseline balance.
C2_ChangeAmount ==
    Returned =>
        \A i \in DOMAIN stats.performance :
            LET u == stats.performance[i].username IN
            stats.performance[i].change_amount =
                Get(current_data, u).money - Get(previous_data, u).money

C2_Witness ==
    /\ ran = "calculate_daily_performance" /\ ~stats.raised
    /\ \E i \in DOMAIN stats.performance :
         LET u == stats.performance[i].username IN
         /\ Get(previous_data, u).money = 100
         /\ Get(current_data, u).money = 200
         /\ stats.performance[i].change_amount = 100
    /\ \E i \in DOMAIN stats.performance : stats.performance[i].change_amount < 0

ExactlyOne(stocks1, stocks2) ==
    { s \in Symbols(stocks1) \cup Symbols(stocks2) :
        (s \in Symbols(stocks1)) # (s \in Symbols(stocks2)) }

\* C3: each record's trade count is the number of symbols occurring in
\* exactly one of the user's two holdings lists; it is 0 when the symbol
\* sets agree, whatever the quantities and labels.
C3_TradeCount ==
    Returned =>
        \A i \in DOMAIN stats.performance :
            LET u == stats.performance[i].username
                c == Get(current_data, u).stocks
                p == Get(previous_data, u).stocks
            IN  /\ stats.performance[i].trades = Cardinality(ExactlyOne(c, p))
                /\ Symbols(c) = Symbols(p) => stats.performance[i].trades = 0

C3_Witness ==
    /\ ran = "calculate_daily_performance" /\ ~stats.raised
    /\ \E i \in DOMAIN stats.performance :
         LET u == stats.performance[i].username IN
         /\ Get(previous_data, u).stocks = <<AAPL10>>
         /\ Get(current_data, u).stocks = <<AAPL12>>
         /\ stats.performance[i].trades = 0
    /\ \E i \in DOMAIN stats.performance : stats.performance[i].trades = 2

\* The compared users, in current-snapshot iteration order.
IsShared(entry) == HasKey(previous_data, entry.username)
Compared == SelectSeq(current_data, IsShared)

RecordOf(username) ==
    stats.performance[CHOOSE i \in DOMAIN stats.performance :
                          stats.performance[i].username = username]
PercentOf(i) == RecordOf(Compared[i].username).change_percent

AsMove(rec) ==
    [username |-> rec.username, amount |-> rec.change_amount, percent |-> rec.change_percent]

\* The first index of Compared with the largest (smallest) change_percent.
FirstMax ==
    CHOOSE i \in DOMAIN Compared :
        /\ \A j \in DOMAIN Compared : ~PctGT(PercentOf(j), PercentOf(i))
        /\ \A j \in 1..(i - 1) : PctLT(PercentOf(j), PercentOf(i))
FirstMin ==
    CHOOSE i \in DOMAIN Compared :
        /\ \A j \in DOMAIN Compared : ~PctLT(PercentOf(j), PercentOf(i))
        /\ \A j \in 1..(i - 1) : PctGT(PercentOf(j), PercentOf(i))

ExpectedGain ==
    IF Compared # <<>> /\ PctGT(PercentOf(FirstMax), ZeroPercent)
    THEN AsMove(RecordOf(Compared[FirstMax].username))
    ELSE Sentinel
ExpectedLoss ==
    IF Compared # <<>> /\ PctLT(PercentOf(FirstMin), ZeroPercent)
    THEN AsMove(RecordOf(Compared[FirstMin].username))
    ELSE Sentinel

\* C8: biggest_gain is the record of the first compared user with the
\* maximum change_percent when that maximum is positive and the zero
\* sentinel otherwise; biggest_loss likewise with the minimum when it is
\* negative; the summary shows a gain or loss field only for a real user.
C8_BiggestMoves ==
    /\ Returned =>
          /\ stats.biggest_gain = ExpectedGain
          /\ stats.biggest_loss = ExpectedLoss
    /\ ran = "summary" =>
          /\ out[1].gain = IF stats.biggest_gain = Sentinel THEN <<>>
                           ELSE <<stats.biggest_gain>>
          /\ out[1].loss = IF stats.biggest_loss = Sentinel THEN <<>>
                           ELSE <<stats.biggest_loss>>
          /\ \A m \in { out[1].gain[i] : i \in DOMAIN out[1].gain }
                  \cup { out[1].loss[i] : i \in DOMAIN out[1].loss } :
                 m.username \in SharedUsers

C8_Witness ==
    /\ ran = "summary"
    /\ Len(Compared) = 3
    /\ PercentOf(1) = ZeroPercent
    /\ PercentOf(2) = ZeroPercent
    /\ PctLT(PercentOf(3), ZeroPercent)
    /\ stats.biggest_gain = Sentinel
    /\ stats.biggest_loss.username = "carol"
    /\ out[1].gain = <<>>
    /\ Len(out[1].loss) = 1

C8_TieWitness ==
    /\ ran = "summary"
    /\ Len(Compared) >= 2
    /\ PctGT(PercentOf(1), ZeroPercent)
    /\ PercentOf(2) = PercentOf(1)
    /\ stats.biggest_gain.username = Compared[1].username

-----------------------------------------------------------------------------
(* Properties of the /leaderboard command (checked under SpecBoard) *)

ExpectedRows(data, count_) ==
    Min(Max(1, Min(count_, LeaderboardLimit)), Len(data))

\* C5: for every snapshot and every count the reply lists exactly
\* min(max(1, min(count, 10)), |S|) users, distinct users of S with their
\* balances, in descending order of balance, and no unlisted user has a
\* larger balance than a listed one.
C5_TopN ==
    (ran = "leaderboard" /\ Readable(latest)) =>
        LET rows == out[1].rows
            listed == { rows[i].user_name : i \in DOMAIN rows }
        IN  /\ Len(rows) = ExpectedRows(latest.data, count)
            /\ Cardinality(listed) = Len(rows)
            /\ \A i \in DOMAIN rows :
                 /\ HasKey(latest.data, rows[i].user_name)
                 /\ rows[i].user_money = Get(latest.data, rows[i].user_name).money
            /\ \A i \in 1..(Len(rows) - 1) : rows[i].user_money >= rows[i + 1].user_money
            /\ \A i \in DOMAIN rows : \A k \in DOMAIN latest.data :
                 latest.data[k].username \notin listed
                     => latest.data[k].money <= rows[i].user_money

C5_Witness ==
    /\ ran = "leaderboard" /\ Readable(latest)
    /\ count > LeaderboardLimit
    /\ Len(latest.data) > LeaderboardLimit
    /\ Len(out[1].rows) = LeaderboardLimit
    /\ latest.data[1].money < latest.data[Len(latest.data)].money
    /\ out[1].rows[1].user_money > out[1].rows[LeaderboardLimit].user_money

C5_LowWitness ==
    /\ ran = "leaderboard" /\ Readable(latest)
    /\ count <= 0
    /\ Len(latest.data) > 1
    /\ Len(out[1].rows) = 1

-----------------------------------------------------------------------------
(* Properties of the scheduled callbacks (checked under Spec) *)

ZeroBaseline(previous, current) ==
    \E i \in DOMAIN current :
        /\ HasKey(previous, current[i].username)
        /\ Get(previous, current[i].username).money = 0

\* C4: when a user present in both snapshots has baseline balance 0,
\* calculate_daily_performance raises, nothing is returned (no record, no
\* percent), and the send_daily_summary run sends no message.
C4_ZeroBaselineAborts ==
    (/\ ran = "send_daily_summary" /\ weekday < Weekdays
     /\ Readable(morning) /\ Readable(latest)
     /\ ZeroBaseline(morning.data, latest.data))
    => /\ stats.raised
       /\ stats.performance = <<>>
       /\ stats.most_active = <<>>
       /\ stats.biggest_gain = Sentinel /\ stats.biggest_loss = Sentinel
       /\ out = <<>>
       /\ log = <<"Error in send_daily_summary">>

C4_Witness ==
    /\ ran = "send_daily_summary" /\ weekday < Weekdays
    /\ Readable(morning) /\ Readable(latest)
    /\ ZeroBaseline(morning.data, latest.data)
    /\ Get(morning.data, latest.data[1].username).money # 0
    /\ stats.raised
    /\ out = <<>>

\* C6: no failure of a scheduled run escapes its callback: no step stops
\* a running loop, so each callback runs again at its next trigger.
C6_LoopsSurvive == [][\A t \in Loops : alive[t] => alive'[t]]_vars

C6_Witness ==
    /\ ran = "start_of_day"
    /\ weekday < Weekdays
    /\ ~Readable(latest)
    /\ log = <<"Error creating morning snapshot">>
    /\ \A t \in Loops : alive[t]

C6_SendWitness ==
    /\ slPc = "idle"
    /\ compared = "failed"
    /\ slLog = <<"Error in send_leaderboard">>
    /\ \A t \in Loops : alive[t]

SummaryStep == "send_daily_summary" \in fired' \ fired

\* C7: a daily-summary trigger that finds no morning baseline sends
\* nothing, writes no file, raises nothing and leaves the loops running;
\* whatever summary a trigger does post is the one computed from the
\* baseline and leaderboard files it finds.
C7_MissingBaselineNoOp ==
    /\ [][(SummaryStep /\ ~Exists(morning)) =>
             /\ out' = <<>>
             /\ latest' = latest /\ snapshot' = snapshot /\ morning' = morning
             /\ alive' = alive
             /\ stats' = NoStats
             /\ \A i \in DOMAIN log' : log'[i] # "Error in send_daily_summary"]_vars
    /\ []((ran = "send_daily_summary" /\ out # <<>>) =>
             /\ Readable(morning) /\ Readable(latest)
             /\ out = <<SummaryEmbed(
                          calculate_daily_performance(morning.data, latest.data))>>)

C7_Witness ==
    /\ ran = "send_daily_summary" /\ weekday < Weekdays
    /\ ~Exists(morning)
    /\ Readable(latest)
    /\ log = <<"No morning snapshot found">>
    /\ out = <<>>

C7_LaterWitness ==
    /\ ran = "send_daily_summary"
    /\ Len(out) = 1 /\ out[1].kind = "summary"

\* C9: every posted end-of-day summary compares against a morning
\* snapshot captured on the same day.
C9_SummaryUsesTodaysBaseline ==
    (ran = "send_daily_summary" /\ out # <<>>) => morningFresh

ChangesIn(msgs) == SelectSeq(msgs, LAMBDA m : m.kind = "changes")

\* C10: compare_stock_changes overwrites the snapshot only in the step
\* that ends a run without error, after every change message of the run
\* was sent, and with the leaderboard the run read; a run that fails on a
\* read or a send never changes it; and while the leaderboard is still the
\* one the run read, a repeated run has no change message to send.
C10_SnapshotAfterSends ==
    /\ [][snapshot' # snapshot =>
            /\ compared' = "ok" /\ slPc' = "idle"
            /\ Readable(slMem') /\ snapshot' = slMem'
            /\ Readable(snapshot) =>
                 ChangesIn(slOut') = ChangeMessages(snapshot.data, slMem'.data)]_vars
    /\ [][compared' = "failed" => snapshot' = snapshot]_vars
    /\ [](compared = "ok" =>
            /\ snapshot = slMem
            /\ latest = slMem =>
                 /\ compare_stock_changes(snapshot, latest).pending = <<>>
                 /\ compare_stock_changes(snapshot, latest).compared = "ok")

C10_Witness ==
    /\ slPc = "idle"
    /\ compared = "failed"
    /\ Readable(snapshot) /\ Readable(latest)
    /\ snapshot # latest
    /\ Len(ChangesIn(slOut)) = 1
    /\ Len(ChangeMessages(snapshot.data, latest.data)) = 2

C10_OkWitness ==
    /\ slPc = "idle"
    /\ compared = "ok"
    /\ ChangesIn(slOut) # <<>>
    /\ snapshot = latest

\* A run that ended without error while the refresher replaced the
\* leaderboard during a send: the snapshot is the leaderboard the run read.
C10_RefreshedWitness ==
    /\ slPc = "idle"
    /\ compared = "ok"
    /\ ChangesIn(slOut) # <<>>
    /\ snapshot = slMem
    /\ Readable(latest) /\ latest # slMem

====
